---- MODULE Spec2Model ----
(***************************************************************************)
(* Presence and call-signalling relay of src/server.py: the UserManager    *)
(* registry (connected_users, heartbeats, pending_signals, active_calls),  *)
(* the websocket_handler dispatch, broadcast_user_list and the            *)
(* cleanup_inactive_users sweep.                                           *)
(*                                                                         *)
(* One step of Spec is one run of a handler between two waits for input:   *)
(* the start of a connection, one inbound frame, the teardown of a         *)
(* connection, one sweep.  Sends that do not block do not suspend the      *)
(* coroutine, so a handler running to completion is a schedule of the      *)
(* event loop.                                                             *)
(***************************************************************************)
EXTENDS Integers, Sequences, FiniteSets, TLC

(* ------------------------------ bounds -------------------------------- *)
\* transports that may be failing at the same time
MaxBroken == 1
\* clock ticks after which time stops
MaxTicks == 4
\* signals the pending queues may hold, all together
MaxPending == 2
\* steps of other coroutines that run while one fan-out is suspended in its sends
MaxInterleaved == 1

(* --------------------------- program constants ------------------------ *)
\* check_inactive_users: current_time - hb > 30
InactiveAfter == 30
\* cleanup_inactive_users: asyncio.sleep(60)
SweepInterval == 60
\* Python None, as an id; falsy like None in "if partner"
None == 0

\* ids of the accounts (sqlite AUTOINCREMENT ids, from 1)
Users == {1, 2, 3}
\* what a client may put in targetId: an account, registered or not, or
\* nothing (None: the field is missing)
TargetIds == Users \cup {None}
\* transport connections <<account, slot>>: a second one for the same account
\* is a second tab, or a reconnect that races the teardown of the old socket
Slots == {1, 2}
\* the accounts that may hold a second connection while the first is running
DupUsers == {1}
\* what a client may put in the signal field of a webrtc_signal (opaque to
\* the server)
Payloads == {"offer", "answer"}
Handles == {c \in Users \X Slots : c[2] = 1 \/ c[1] \in DupUsers}
\* the account a connection's session token resolves to
Owner(c) == c[1]

VARIABLES
    connected_users,   \* user_id -> [ws, status, in_call_with]
    heartbeats,        \* user_id -> time of the last heartbeat
    pending_signals,   \* user_id -> queue of undelivered signals
    active_calls,      \* call_id -> [users, start_time]
    conn,              \* state of each transport connection
    now,               \* time.time(), in seconds
    nextSweep          \* when the sleep of cleanup_inactive_users ends

vars == <<connected_users, heartbeats, pending_signals, active_calls,
          conn, now, nextSweep>>

(* ------------------------------ dict helpers -------------------------- *)
Drop(f, k) == [x \in DOMAIN f \ {k} |-> f[x]]
Put(f, k, v) == [x \in DOMAIN f \cup {k} |-> IF x = k THEN v ELSE f[x]]
\* the orders in which a dict may hold the keys S
Orders(S) ==
    {q \in [1..Cardinality(S) -> S] : \A i, j \in DOMAIN q : i # j => q[i] # q[j]}
Min(a, b) == IF a <= b THEN a ELSE b
Max(a, b) == IF a >= b THEN a ELSE b

\* a key built from the ids in the order given
call_id_as_given(a, b) == <<a, b>>

\* f"{min(user_id, partner)}_{max(user_id, partner)}"
call_id(a, b) == <<Min(a, b), Max(a, b)>>

(* ------------------------------ UserManager --------------------------- *)
\* The registry as one handler run finds it: the four dicts of UserManager,
\* and what the run has done so far: out, the frames it sent, in order; db,
\* its db.log_call calls; ev, its remove_connected_user calls; obs, the
\* connected_users it left in view of the other coroutines each time it
\* suspended in a send.
Registry ==
    [cu |-> connected_users, hb |-> heartbeats,
     ps |-> pending_signals, ac |-> active_calls,
     out |-> <<>>, db |-> <<>>, ev |-> <<>>, obs |-> <<>>]

add_connected_user(s, user_id, websocket) ==
    [s EXCEPT !.cu = Put(@, user_id, [ws |-> websocket,
                                      status |-> "disponible",
                                      in_call_with |-> None]),
              !.hb = Put(@, user_id, now),
              !.ps = Put(@, user_id, <<>>)]

\* remove_connected_user without lines 458-461: the partner is not released
remove_without_release(s, user_id) ==
    IF user_id \in DOMAIN s.cu
    THEN [s EXCEPT !.hb = Drop(@, user_id),
                   !.ps = Drop(@, user_id),
                   !.cu = Drop(@, user_id)]
    ELSE s

\* remove_connected_user that releases every peer that names the removed one
\* as its partner, not only the removed peer's own partner
remove_releasing_referrers(s, user_id) ==
    IF user_id \in DOMAIN s.cu
    THEN [s EXCEPT !.hb = Drop(@, user_id),
                   !.ps = Drop(@, user_id),
                   !.cu = [u \in DOMAIN s.cu \ {user_id} |->
                              IF s.cu[u].in_call_with = user_id
                                 \/ s.cu[user_id].in_call_with = u
                              THEN [s.cu[u] EXCEPT !.in_call_with = None,
                                                   !.status = "disponible"]
                              ELSE s.cu[u]]]
    ELSE s

remove_connected_user(s, user_id) ==
    IF user_id \in DOMAIN s.cu
    THEN LET partner == s.cu[user_id].in_call_with
             s1 == IF partner # None /\ partner \in DOMAIN s.cu
                   THEN [s EXCEPT !.cu[partner].in_call_with = None,
                                  !.cu[partner].status = "disponible"]
                   ELSE s
         IN  [s1 EXCEPT !.hb = Drop(@, user_id),
                        !.ps = Drop(@, user_id),
                        !.cu = Drop(@, user_id)]
    ELSE s

\* update_user_status that writes the status and keeps the partner
update_user_status_keeps_partner(s, user_id, status, in_call_with) ==
    IF user_id \notin DOMAIN s.cu
    THEN s
    ELSE [s EXCEPT !.cu[user_id].status = status]

update_user_status(s, user_id, status, in_call_with) ==
    IF user_id \notin DOMAIN s.cu
    THEN s
    ELSE [s EXCEPT !.cu[user_id].status = status,
                   !.cu[user_id].in_call_with = in_call_with]

\* update_heartbeat without the test of line 492
update_heartbeat_unguarded(s, user_id) ==
    [s EXCEPT !.hb = Put(@, user_id, now)]

update_heartbeat(s, user_id) ==
    IF user_id \in DOMAIN s.cu
    THEN [s EXCEPT !.hb = Put(@, user_id, now)]
    ELSE s

\* can_call_user that tests the caller's status alone
can_call_user_any_target(s, caller_id, target_id) ==
    IF caller_id \notin DOMAIN s.cu \/ target_id \notin DOMAIN s.cu
    THEN FALSE
    ELSE IF target_id = caller_id
    THEN FALSE
    ELSE s.cu[caller_id].status = "disponible"

can_call_user(s, caller_id, target_id) ==
    IF caller_id \notin DOMAIN s.cu \/ target_id \notin DOMAIN s.cu
    THEN FALSE
    ELSE IF target_id = caller_id
    THEN FALSE
    ELSE IF s.cu[target_id].status # "disponible"
            \/ s.cu[caller_id].status # "disponible"
    THEN FALSE
    ELSE TRUE

\* initiate_call that forgets the target's side
initiate_call_one_sided(s, caller_id, target_id) ==
    IF ~can_call_user(s, caller_id, target_id)
    THEN [s |-> s, ret |-> FALSE]
    ELSE [s |-> update_user_status(s, caller_id, "llamando", target_id),
          ret |-> TRUE]

initiate_call(s, caller_id, target_id) ==
    IF ~can_call_user(s, caller_id, target_id)
    THEN [s |-> s, ret |-> FALSE]
    ELSE [s |-> update_user_status(
                    update_user_status(s, caller_id, "llamando", target_id),
                    target_id, "recibiendo_llamada", caller_id),
          ret |-> TRUE]

\* accept_call without the test of line 569
accept_call_unguarded(s, user_id) ==
    IF user_id \notin DOMAIN s.cu
    THEN [s |-> s, ret |-> None]
    ELSE LET partner == s.cu[user_id].in_call_with IN
         IF partner = None \/ partner \notin DOMAIN s.cu
         THEN [s |-> s, ret |-> None]
         ELSE LET s2 == update_user_status(
                            update_user_status(s, user_id, "en_llamada", partner),
                            partner, "en_llamada", user_id)
              IN  [s |-> [s2 EXCEPT !.ac = Put(@, call_id(user_id, partner),
                                               [users |-> <<user_id, partner>>,
                                                start_time |-> now])],
                   ret |-> partner]

accept_call(s, user_id) ==
    IF user_id \notin DOMAIN s.cu
    THEN [s |-> s, ret |-> None]
    ELSE LET partner == s.cu[user_id].in_call_with IN
         IF partner = None \/ partner \notin DOMAIN s.cu
         THEN [s |-> s, ret |-> None]
         ELSE IF s.cu[partner].status # "llamando"
         THEN [s |-> s, ret |-> None]
         ELSE LET s2 == update_user_status(
                            update_user_status(s, user_id, "en_llamada", partner),
                            partner, "en_llamada", user_id)
              IN  [s |-> [s2 EXCEPT !.ac = Put(@, call_id(user_id, partner),
                                               [users |-> <<user_id, partner>>,
                                                start_time |-> now])],
                   ret |-> partner]

end_call(s, user_id) ==
    IF user_id \notin DOMAIN s.cu
    THEN [s |-> s, ret |-> None]
    ELSE LET partner == s.cu[user_id].in_call_with IN
         IF partner # None /\ partner \in DOMAIN s.cu
         THEN LET s2 == update_user_status(
                            update_user_status(s, user_id, "disponible", None),
                            partner, "disponible", None)
                  id == call_id(user_id, partner)
              IN  \* line 595 reads the status that line 591 has just reset
                  IF s2.cu[user_id].status = "en_llamada"
                  THEN IF id \in DOMAIN s2.ac
                       THEN [s |-> [s2 EXCEPT
                                      !.db = Append(@, [caller |-> user_id,
                                                        callee |-> partner,
                                                        duration |-> now - s2.ac[id].start_time]),
                                      !.ac = Drop(@, id)],
                             ret |-> partner]
                       ELSE [s |-> s2, ret |-> partner]
                  ELSE [s |-> s2, ret |-> partner]
         ELSE IF s.cu[user_id].status = "en_llamada"
              THEN [s |-> update_user_status(s, user_id, "disponible", None),
                    ret |-> partner]
              ELSE [s |-> s, ret |-> partner]

\* decline_call that resets the decliner alone
decline_call_self_only(s, user_id) ==
    IF user_id \notin DOMAIN s.cu
    THEN [s |-> s, ret |-> None]
    ELSE LET partner == s.cu[user_id].in_call_with IN
         IF partner # None /\ partner \in DOMAIN s.cu
         THEN [s |-> update_user_status(s, user_id, "disponible", None),
               ret |-> partner]
         ELSE [s |-> s, ret |-> partner]

decline_call(s, user_id) ==
    IF user_id \notin DOMAIN s.cu
    THEN [s |-> s, ret |-> None]
    ELSE LET partner == s.cu[user_id].in_call_with IN
         IF partner # None /\ partner \in DOMAIN s.cu
         THEN [s |-> update_user_status(
                         update_user_status(s, user_id, "disponible", None),
                         partner, "disponible", None),
               ret |-> partner]
         ELSE [s |-> s, ret |-> partner]

\* the dict the webrtc_signal branch sends and stores
signal_message(signal, senderId) ==
    [type |-> "webrtc_signal", signal |-> signal, senderId |-> senderId]

\* store_signal that puts the signal at the head of the list
store_signal_at_head(s, target_id, signal_data) ==
    IF target_id \notin DOMAIN s.ps
    THEN [s EXCEPT !.ps = Put(@, target_id, <<signal_data>>)]
    ELSE [s EXCEPT !.ps[target_id] = <<signal_data>> \o @]

store_signal(s, target_id, signal_data) ==
    IF target_id \notin DOMAIN s.ps
    THEN [s EXCEPT !.ps = Put(@, target_id, <<signal_data>>)]
    ELSE [s EXCEPT !.ps[target_id] = Append(@, signal_data)]

get_pending_signals(s, user_id) ==
    IF user_id \in DOMAIN s.ps
    THEN [s |-> [s EXCEPT !.ps[user_id] = <<>>], ret |-> s.ps[user_id]]
    ELSE [s |-> s, ret |-> <<>>]

\* check_inactive_users with >= for >
check_inactive_users_inclusive(s) ==
    {uid \in DOMAIN s.hb : now - s.hb[uid] >= InactiveAfter}

\* check_inactive_users with a threshold of two times 30 seconds
check_inactive_users_lenient(s) ==
    {uid \in DOMAIN s.hb : now - s.hb[uid] > 2 * InactiveAfter}

\* the inactive list of check_inactive_users, as a set: the list holds it in
\* the key order of the heartbeats dict
check_inactive_users(s) ==
    {uid \in DOMAIN s.hb : now - s.hb[uid] > InactiveAfter}

\* get_connected_users: the registered peers other than the requester, with
\* their status (the order of the list, by username, is not modelled)
get_connected_users(s, exclude_user_id) ==
    [u \in DOMAIN s.cu \ {exclude_user_id} |-> s.cu[u].status]

(* ------------------------------ frames -------------------------------- *)
\* A frame handed to ws.send_json: the socket, the type tag, the peer id the
\* frame carries (userId, callerId, calleeId) and the roster it carries.
NoRoster == <<>>
Frame(to, type, id, users) == [to |-> to, type |-> type, id |-> id, users |-> users]
Send(s, to, type, id, users) ==
    [s EXCEPT !.out = Append(@, Frame(to, type, id, users)),
              !.obs = Append(@, s.cu)]

\* a webrtc_signal frame: the dict of signal_message, as it is sent
SignalFrame(to, signal_data) ==
    [to |-> to, type |-> signal_data.type, id |-> signal_data.senderId,
     users |-> NoRoster, signal |-> signal_data.signal]
SendSignal(s, to, signal_data) ==
    [s EXCEPT !.out = Append(@, SignalFrame(to, signal_data)),
              !.obs = Append(@, s.cu)]

\* the users list of a user_list frame: every account but the recipient,
\* with the status of the registered ones
user_list(s, uid) ==
    [u \in Users \ {uid} |->
        IF u \in DOMAIN s.cu THEN s.cu[u].status ELSE "desconectado"]

(* ---------------------- removals, as they are logged ------------------ *)
\* What a peer looks like in the registry.
Absent == [status |-> "absent", in_call_with |-> None]
PeerView(s, u) ==
    IF u \in DOMAIN s.cu
    THEN [status |-> s.cu[u].status, in_call_with |-> s.cu[u].in_call_with]
    ELSE Absent

\* One call of remove_connected_user, recorded in ev: the peer and its partner
\* as the call found them, and what it left of them.
Removed(s, user_id, via) ==
    LET s2 == remove_connected_user(s, user_id)
        p  == PeerView(s, user_id).in_call_with
    IN  [s2 EXCEPT !.ev = Append(@,
            [via |-> via, uid |-> user_id,
             peer |-> PeerView(s, user_id),
             partner |-> PeerView(s, p),
             partner_after |-> PeerView(s2, p),
             in_registry |-> user_id \in DOMAIN s2.cu,
             in_heartbeats |-> user_id \in DOMAIN s2.hb,
             in_pending |-> user_id \in DOMAIN s2.ps])]

(* ------------------------------ broadcast ----------------------------- *)
\* a fan-out that gives up at the first send that raises
RECURSIVE Fanout_stops_at_failure(_, _, _)
Fanout_stops_at_failure(s, snapshot, cs) ==
    IF snapshot = <<>>
    THEN s
    ELSE LET uid == Head(snapshot)[1]
             ws  == Head(snapshot)[2]
         IN  IF cs[ws] = "closed"
             THEN Fanout_stops_at_failure(s, Tail(snapshot), cs)
             ELSE IF cs[ws] = "open"
             THEN Fanout_stops_at_failure(
                      Send(s, ws, "user_list", None, user_list(s, uid)),
                      Tail(snapshot), cs)
             ELSE Removed(s, uid, "broadcast")

\* The loop of broadcast_user_list over the snapshot list(connected_users.items()):
\* cs is the state of the transports while it runs.
RECURSIVE Fanout(_, _, _)
Fanout(s, snapshot, cs) ==
    IF snapshot = <<>>
    THEN s
    ELSE LET uid == Head(snapshot)[1]
             ws  == Head(snapshot)[2]
             s1  == IF cs[ws] = "closed"
                    THEN s
                    ELSE IF cs[ws] = "open"
                    THEN Send(s, ws, "user_list", None, user_list(s, uid))
                    ELSE Removed(s, uid, "broadcast")
         IN  Fanout(s1, Tail(snapshot), cs)

\* What the coroutines that run while a fan-out is suspended in a send may have
\* done to the registry: nothing, the removal of a peer, a registration.
Interleavings(s, cs) ==
    {s} \cup {remove_connected_user(s, u) : u \in DOMAIN s.cu}
        \cup {add_connected_user(s, Owner(c), c) : c \in {x \in Handles : cs[x] = "closed"}}

\* The loop of broadcast_user_list when other coroutines take up to k steps
\* while it is suspended: the snapshot is the list built before the loop.
RECURSIVE FanoutSuspended(_, _, _, _)
FanoutSuspended(s, snapshot, cs, k) ==
    IF snapshot = <<>>
    THEN {s}
    ELSE LET uid == Head(snapshot)[1]
             ws  == Head(snapshot)[2]
             s1  == IF cs[ws] = "closed"
                    THEN s
                    ELSE IF cs[ws] = "open"
                    THEN Send(s, ws, "user_list", None, user_list(s, uid))
                    ELSE Removed(s, uid, "broadcast")
         IN  FanoutSuspended(s1, Tail(snapshot), cs, k)
             \cup (IF k > 0
                   THEN UNION {FanoutSuspended(d, Tail(snapshot), cs, k - 1) :
                                  d \in Interleavings(s1, cs) \ {s1}}
                   ELSE {})

\* The runs of broadcast_user_list, one for each key order the dict may have
\* (the order in which the peers registered).
broadcast_user_list(s, cs) ==
    {Fanout(s, [i \in DOMAIN keys |-> <<keys[i], s.cu[keys[i]].ws>>], cs) :
        keys \in Orders(DOMAIN s.cu)}

\* the loop of check_inactive_users over the inactive list
RECURSIVE RemoveAll(_, _)
RemoveAll(s, inactive) ==
    IF inactive = <<>>
    THEN s
    ELSE RemoveAll(Removed(s, Head(inactive), "sweep"), Tail(inactive))

(* ------------------------------ handlers ------------------------------ *)
\* Each handler maps the registry it finds to the registries it may leave
\* (one per key order where it iterates a dict).  c is the connection the
\* handler runs for, cs the state of the transports while it runs.

RECURSIVE SendAll(_, _, _)
SendAll(s, to, signals) ==
    IF signals = <<>>
    THEN s
    ELSE SendAll(SendSignal(s, to, Head(signals)), to, Tail(signals))

\* websocket_handler from add_connected_user to the receive loop
on_connect(s, c, cs) ==
    LET s1 == add_connected_user(s, Owner(c), c)
        s2 == Send(s1, c, "registered", Owner(c), get_connected_users(s1, Owner(c)))
        p  == get_pending_signals(s2, Owner(c))
    IN  broadcast_user_list(SendAll(p.s, c, p.ret), cs)

\* a finally clause that broadcasts and leaves the peer registered
on_close_without_removal(s, c, cs) ==
    broadcast_user_list(s, cs)

\* the finally clause of websocket_handler
on_close(s, c, cs) ==
    broadcast_user_list(Removed(s, Owner(c), "close"), cs)

on_heartbeat(s, c) ==
    {Send(update_heartbeat(s, Owner(c)), c, "heartbeat_ack", None, NoRoster)}

\* a text frame that json.loads rejects, or whose JSON value has no get():
\* the except clause of the receive loop answers it
on_malformed(s, c) ==
    {Send(s, c, "error", None, NoRoster)}

\* a frame whose type matches no branch of the if/elif chain: the chain has
\* no else, nothing runs
on_unknown_type(s, c) ==
    {s}

\* the get_users branch: the whole roster, to the requester alone
on_get_users(s, c) ==
    {Send(s, c, "user_list", None, user_list(s, Owner(c)))}

\* a webrtc_signal branch that counts the frame as a sign of life
on_webrtc_signal_refreshes(s, c, target_id, signal, cs) ==
    LET s1 == update_heartbeat(s, Owner(c))
    IN  IF target_id \in DOMAIN s1.cu
        THEN IF cs[s1.cu[target_id].ws] = "open"
             THEN {SendSignal(s1, s1.cu[target_id].ws, signal_message(signal, Owner(c)))}
             ELSE {store_signal(s1, target_id, signal_message(signal, Owner(c)))}
        ELSE {s1}

\* a webrtc_signal branch whose failed send ends in the except clause of the
\* receive loop
on_webrtc_signal_reports_failure(s, c, target_id, signal, cs) ==
    IF target_id \in DOMAIN s.cu
    THEN IF cs[s.cu[target_id].ws] = "open"
         THEN {SendSignal(s, s.cu[target_id].ws, signal_message(signal, Owner(c)))}
         ELSE {Send(s, c, "error", None, NoRoster)}
    ELSE {s}

\* the webrtc_signal branch: relayed to a registered target, stored for it when
\* the send raises, and nothing at all when the target is not registered
on_webrtc_signal(s, c, target_id, signal, cs) ==
    IF target_id \in DOMAIN s.cu
    THEN IF cs[s.cu[target_id].ws] = "open"
         THEN {SendSignal(s, s.cu[target_id].ws, signal_message(signal, Owner(c)))}
         ELSE {store_signal(s, target_id, signal_message(signal, Owner(c)))}
    ELSE {s}

\* The webrtc_signal branch when its send to the target fails after having
\* suspended: the target was registered at the test of line 791, other
\* coroutines ran during the await, and the except clause stores the signal
\* in the registry they left.
on_webrtc_signal_suspended(s, c, target_id, signal, cs) ==
    IF target_id \in DOMAIN s.cu /\ cs[s.cu[target_id].ws] # "open"
    THEN {store_signal(d, target_id, signal_message(signal, Owner(c))) :
             d \in Interleavings(s, cs)}
    ELSE {}

\* partner_ws = connected_users[partner]['ws']; await partner_ws.send_json(..);
\* await broadcast_user_list() -- a KeyError or a failed send ends in the
\* except clause, which answers the sender with an error frame
Notify(s, c, partner, type, id, cs) ==
    IF partner \in DOMAIN s.cu /\ cs[s.cu[partner].ws] = "open"
    THEN broadcast_user_list(Send(s, s.cu[partner].ws, type, id, NoRoster), cs)
    ELSE {Send(s, c, "error", None, NoRoster)}

\* a call_request branch that marks the caller, sends incoming_call, and marks
\* the target only after the send
on_call_request_in_two_steps(s, c, target_id, cs) ==
    IF can_call_user(s, Owner(c), target_id)
    THEN LET s1 == update_user_status(s, Owner(c), "llamando", target_id)
         IN  IF cs[s1.cu[target_id].ws] = "open"
             THEN broadcast_user_list(
                      update_user_status(
                          Send(s1, s1.cu[target_id].ws, "incoming_call", Owner(c), NoRoster),
                          target_id, "recibiendo_llamada", Owner(c)),
                      cs)
             ELSE {Send(s1, c, "error", None, NoRoster)}
    ELSE {Send(s, c, "call_error", None, NoRoster)}

on_call_request(s, c, target_id, cs) ==
    LET r == initiate_call(s, Owner(c), target_id)
    IN  IF r.ret
        THEN Notify(r.s, c, target_id, "incoming_call", Owner(c), cs)
        ELSE {Send(r.s, c, "call_error", None, NoRoster)}

on_call_accept(s, c, cs) ==
    LET r == accept_call(s, Owner(c))
    IN  IF r.ret # None
        THEN Notify(r.s, c, r.ret, "call_accepted", Owner(c), cs)
        ELSE {r.s}

on_call_decline(s, c, cs) ==
    LET r == decline_call(s, Owner(c))
    IN  IF r.ret # None
        THEN Notify(r.s, c, r.ret, "call_declined", None, cs)
        ELSE {r.s}

\* the call_end branch without "if partner": it always notifies
on_call_end_always_notifies(s, c, cs) ==
    LET r == end_call(s, Owner(c))
    IN  Notify(r.s, c, r.ret, "call_ended", None, cs)

on_call_end(s, c, cs) ==
    LET r == end_call(s, Owner(c))
    IN  IF r.ret # None
        THEN Notify(r.s, c, r.ret, "call_ended", None, cs)
        ELSE {r.s}

\* a round of cleanup_inactive_users in which a send failure of the broadcast
\* is not caught: the exception leaves the while loop and the task ends
on_sweep_dies_on_failure(s, cs) ==
    LET inactive == check_inactive_users(s)
    IN  IF inactive # {}
        THEN UNION {IF \E u \in DOMAIN RemoveAll(s, q).cu :
                          cs[RemoveAll(s, q).cu[u].ws] = "broken"
                    THEN {}
                    ELSE broadcast_user_list(RemoveAll(s, q), cs) :
                    q \in Orders(inactive)}
        ELSE {s}

\* one round of cleanup_inactive_users, after its sleep
on_sweep(s, cs) ==
    LET inactive == check_inactive_users(s)
    IN  IF inactive # {}
        THEN UNION {broadcast_user_list(RemoveAll(s, q), cs) : q \in Orders(inactive)}
        ELSE {s}

(* ------------------------------ actions ------------------------------- *)
Commit(s) ==
    /\ connected_users' = s.cu
    /\ heartbeats' = s.hb
    /\ pending_signals' = s.ps
    /\ active_calls' = s.ac

Broken == {c \in Handles : conn[c] = "broken"}

\* a connection starts
Connect(c) ==
    /\ conn[c] = "closed"
    /\ conn' = [conn EXCEPT ![c] = "open"]
    /\ \E s \in on_connect(Registry, c, conn') : Commit(s)
    /\ UNCHANGED <<now, nextSweep>>

\* the transport of a connection fails: sends on it raise from now on, and
\* its receive loop reads no further frame
Break(c) ==
    /\ conn[c] = "open"
    /\ Cardinality(Broken) < MaxBroken
    /\ conn' = [conn EXCEPT ![c] = "broken"]
    /\ UNCHANGED <<connected_users, heartbeats, pending_signals, active_calls,
                   now, nextSweep>>

\* the receive loop of a connection ends
Close(c) ==
    /\ conn[c] # "closed"
    /\ conn' = [conn EXCEPT ![c] = "closed"]
    /\ \E s \in on_close(Registry, c, conn') : Commit(s)
    /\ UNCHANGED <<now, nextSweep>>

Heartbeat(c) ==
    /\ conn[c] = "open"
    /\ \E s \in on_heartbeat(Registry, c) : Commit(s)
    /\ UNCHANGED <<conn, now, nextSweep>>

\* the number of signals waiting in the queues ps
RECURSIVE Backlog(_)
Backlog(ps) ==
    IF DOMAIN ps = {}
    THEN 0
    ELSE LET u == CHOOSE x \in DOMAIN ps : TRUE
         IN  Len(ps[u]) + Backlog(Drop(ps, u))

Malformed(c) ==
    /\ conn[c] = "open"
    /\ \E s \in on_malformed(Registry, c) : Commit(s)
    /\ UNCHANGED <<conn, now, nextSweep>>

UnknownType(c) ==
    /\ conn[c] = "open"
    /\ \E s \in on_unknown_type(Registry, c) : Commit(s)
    /\ UNCHANGED <<conn, now, nextSweep>>

GetUsers(c) ==
    /\ conn[c] = "open"
    /\ \E s \in on_get_users(Registry, c) : Commit(s)
    /\ UNCHANGED <<conn, now, nextSweep>>

WebrtcSignal(c, target_id, signal) ==
    /\ conn[c] = "open"
    /\ \E s \in on_webrtc_signal(Registry, c, target_id, signal, conn) :
          /\ Backlog(s.ps) <= MaxPending
          /\ Commit(s)
    /\ UNCHANGED <<conn, now, nextSweep>>

CallRequest(c, target_id) ==
    /\ conn[c] = "open"
    /\ \E s \in on_call_request(Registry, c, target_id, conn) : Commit(s)
    /\ UNCHANGED <<conn, now, nextSweep>>

CallAccept(c) ==
    /\ conn[c] = "open"
    /\ \E s \in on_call_accept(Registry, c, conn) : Commit(s)
    /\ UNCHANGED <<conn, now, nextSweep>>

CallDecline(c) ==
    /\ conn[c] = "open"
    /\ \E s \in on_call_decline(Registry, c, conn) : Commit(s)
    /\ UNCHANGED <<conn, now, nextSweep>>

CallEnd(c) ==
    /\ conn[c] = "open"
    /\ \E s \in on_call_end(Registry, c, conn) : Commit(s)
    /\ UNCHANGED <<conn, now, nextSweep>>

\* time passes, up to the end of the sweeper's sleep
Tick ==
    /\ now + InactiveAfter <= nextSweep
    /\ now < MaxTicks * InactiveAfter
    /\ now' = now + InactiveAfter
    /\ UNCHANGED <<connected_users, heartbeats, pending_signals, active_calls,
                   conn, nextSweep>>

\* 30 seconds pass, told with the origin of the clock moved to the present:
\* the code reads the clock only in differences (now - hb > 30, now -
\* start_time), so every timestamp moves back instead of now moving on; a
\* timestamp older than two thresholds is kept at that age, which is past
\* every comparison the code makes.
Horizon == 2 * InactiveAfter
Elapse ==
    /\ now + InactiveAfter <= nextSweep
    /\ nextSweep' = nextSweep - InactiveAfter
    /\ heartbeats' = [u \in DOMAIN heartbeats |->
                         Max(heartbeats[u] - InactiveAfter, now - Horizon)]
    /\ active_calls' = [id \in DOMAIN active_calls |->
                           [active_calls[id] EXCEPT !.start_time =
                               Max(@ - InactiveAfter, now - Horizon)]]
    /\ UNCHANGED <<connected_users, pending_signals, conn, now>>

Sweep ==
    /\ now >= nextSweep
    /\ \E s \in on_sweep(Registry, conn) : Commit(s)
    /\ nextSweep' = now + SweepInterval
    /\ UNCHANGED <<conn, now>>

Init ==
    /\ connected_users = <<>>
    /\ heartbeats = <<>>
    /\ pending_signals = <<>>
    /\ active_calls = <<>>
    /\ conn = [c \in Handles |-> "closed"]
    /\ now = 0
    /\ nextSweep = SweepInterval

\* The presence and call-signalling engine with the clock stopped.
Next ==
    \/ \E c \in Handles : Connect(c)
    \/ \E c \in Handles : Break(c)
    \/ \E c \in Handles : Close(c)
    \/ \E c \in Handles, t \in TargetIds : CallRequest(c, t)
    \/ \E c \in Handles : CallAccept(c)
    \/ \E c \in Handles : CallDecline(c)
    \/ \E c \in Handles : CallEnd(c)

Spec == Init /\ [][Next]_vars

\* The engine with its clock, the heartbeats and the liveness monitor, for the
\* accounts LiveUsers (a targetId may still name any account).  The signals
\* sent here are those that reach their target or are dropped: the pending
\* queues stay empty, they are the subject of SpecSignal.
LiveUsers == {1, 2}

NextLive ==
    \/ \E c \in Handles : Owner(c) \in LiveUsers /\ Connect(c)
    \/ \E c \in Handles : Break(c)
    \/ \E c \in Handles : Close(c)
    \/ \E c \in Handles : Heartbeat(c)
    \/ \E c \in Handles, t \in TargetIds : CallRequest(c, t)
    \/ \E c \in Handles : CallAccept(c)
    \/ \E c \in Handles : CallDecline(c)
    \/ \E c \in Handles : CallEnd(c)
    \/ \E c \in Handles : GetUsers(c)
    \/ \E c \in Handles, t \in TargetIds, p \in Payloads :
          WebrtcSignal(c, t, p) /\ Backlog(pending_signals') = 0
    \/ Tick
    \/ Sweep

SpecLive == Init /\ [][NextLive]_vars

\* The liveness monitor for the whole life of the process: time never stops.
\* The sleep of cleanup_inactive_users ends (Elapse is fair: the clock runs)
\* and the task is then scheduled (Sweep is fair: the event loop runs every
\* ready task); nothing is assumed of the connections.
NextMonitor ==
    \/ \E c \in Handles : Owner(c) \in LiveUsers /\ Connect(c)
    \/ \E c \in Handles : Break(c)
    \/ \E c \in Handles : Close(c)
    \/ \E c \in Handles : Heartbeat(c)
    \/ \E c \in Handles, t \in TargetIds : CallRequest(c, t)
    \/ Elapse
    \/ Sweep

SpecMonitor ==
    Init /\ [][NextMonitor]_vars /\ WF_vars(Elapse) /\ WF_vars(Sweep)

\* The signal relay and its pending queues: connections come and go, their
\* transports fail, and the peers exchange signals and ask for the roster.
NextSignal ==
    \/ \E c \in Handles : Connect(c)
    \/ \E c \in Handles : Break(c)
    \/ \E c \in Handles : Close(c)
    \/ \E c \in Handles : GetUsers(c)
    \/ \E c \in Handles, t \in TargetIds, p \in Payloads : WebrtcSignal(c, t, p)
    \/ \E c \in Handles : Malformed(c)
    \/ \E c \in Handles : UnknownType(c)

SpecSignal == Init /\ [][NextSignal]_vars

(* ============================== properties ============================ *)
Open == {c \in Handles : conn[c] = "open"}
Running == {c \in Handles : conn[c] # "closed"}
InCallStatuses == {"llamando", "recibiendo_llamada", "en_llamada"}
Available == [status |-> "disponible", in_call_with |-> None]
Peer(status, partner) == [status |-> status, in_call_with |-> partner]
Registered(u) == u \in DOMAIN connected_users
Frames(h) == {h.out[i] : i \in DOMAIN h.out}

\* C1: partner symmetry -- in every reachable state, a registered peer X that
\* is not 'disponible' and has in_call_with = Y has a registered partner Y
\* with in_call_with = X.
C1_PartnerSymmetry ==
    \A x \in DOMAIN connected_users :
        LET y == connected_users[x].in_call_with
        IN  (y # None /\ connected_users[x].status # "disponible")
                => (Registered(y) /\ connected_users[y].in_call_with = x)

\* C2: whenever initiate_call(A, B) returns True, the registry it leaves has
\* A 'llamando' with partner B and B 'recibiendo_llamada' with partner A; and
\* that is the registry the call_request handler leaves when its broadcast
\* removes nobody.
C2_InitiateSetsBoth ==
    \A a \in Users, b \in TargetIds :
        LET r == initiate_call(Registry, a, b)
        IN  r.ret =>
              /\ PeerView(r.s, a) = Peer("llamando", b)
              /\ PeerView(r.s, b) = Peer("recibiendo_llamada", a)
              /\ \A c \in Open : Owner(c) = a =>
                    \A h \in on_call_request(Registry, c, b, conn) :
                        h.ev = <<>> => h.cu = r.s.cu

\* C2 witness: a call has been initiated, A is calling B and B is receiving.
C2_CallingPair ==
    \E a, b \in DOMAIN connected_users :
        /\ PeerView(Registry, a) = Peer("llamando", b)
        /\ PeerView(Registry, b) = Peer("recibiendo_llamada", a)

CanCall(a, b) ==
    /\ a # b
    /\ Registered(a) /\ Registered(b)
    /\ connected_users[a].status = "disponible"
    /\ connected_users[b].status = "disponible"

\* C3: a call_request of caller to target succeeds iff the two differ, both
\* are registered and both are 'disponible'; in every other case the handler
\* sends one frame, call_error, to the caller, and leaves the status and the
\* partner of every peer as they were; when it succeeds no call_error is sent.
C3_CallRequestGuard ==
    \A c \in Open, b \in TargetIds :
        LET a == Owner(c)
        IN  /\ initiate_call(Registry, a, b).ret <=> CanCall(a, b)
            /\ \A h \in on_call_request(Registry, c, b, conn) :
                  IF CanCall(a, b)
                  THEN /\ \A f \in Frames(h) : f.type # "call_error"
                       /\ (PeerView(h, a).status = "llamando" \/ h.ev # <<>>)
                  ELSE /\ h.out = <<Frame(c, "call_error", None, NoRoster)>>
                       /\ h.cu = connected_users

\* C3 witness: an available caller on an open connection, while the target is
\* 'en_llamada' with a third peer.
C3_TargetBusyWithThird ==
    \E c \in Open, b \in DOMAIN connected_users :
        /\ PeerView(Registry, Owner(c)) = Available
        /\ connected_users[b].status = "en_llamada"
        /\ connected_users[b].in_call_with \notin {None, Owner(c)}
        /\ Registered(connected_users[b].in_call_with)

HasCaller(x) ==
    /\ Registered(x)
    /\ connected_users[x].in_call_with # None
    /\ Registered(connected_users[x].in_call_with)
    /\ connected_users[connected_users[x].in_call_with].status = "llamando"

\* C4: accept_call(X) returns a partner iff X is registered and its partner is
\* registered with status 'llamando'; then both are 'en_llamada' with each
\* other and active_calls holds a record under the canonical key of the pair;
\* otherwise (the call was declined or cancelled meanwhile) it returns None
\* and leaves the registry as it was.
C4_AcceptNeedsCaller ==
    \A x \in Users :
        LET r == accept_call(Registry, x)
        IN  IF HasCaller(x)
            THEN LET p == connected_users[x].in_call_with
                 IN  /\ r.ret = p
                     /\ PeerView(r.s, x) = Peer("en_llamada", p)
                     /\ PeerView(r.s, p) = Peer("en_llamada", x)
                     /\ call_id(x, p) \in DOMAIN r.s.ac
                     /\ call_id(p, x) \in DOMAIN r.s.ac
                     /\ r.s.ac[call_id(x, p)].start_time = now
            ELSE /\ r.ret = None
                 /\ r.s = Registry

\* C4 witness: a call has been accepted -- two peers 'en_llamada' with each
\* other and their record -- while a third peer, with no caller, is connected.
C4_AcceptedPair ==
    \E x, p \in DOMAIN connected_users, c \in Open :
        /\ PeerView(Registry, x) = Peer("en_llamada", p)
        /\ PeerView(Registry, p) = Peer("en_llamada", x)
        /\ call_id(x, p) \in DOMAIN active_calls
        /\ Registered(Owner(c)) /\ ~HasCaller(Owner(c))

\* C5: a call_accept of a peer with no active caller is answered with a
\* call_error frame to that peer, nothing is sent to anybody else, and the
\* registry is left as it was.
C5_AcceptWithoutCallerIsAnError ==
    \A c \in Open :
        ~HasCaller(Owner(c)) =>
            \A h \in on_call_accept(Registry, c, conn) :
                /\ h.out = <<Frame(c, "call_error", None, NoRoster)>>
                /\ h.cu = connected_users
                /\ h.ac = active_calls

\* C6: end_call(X) calls db.log_call -- with X, its partner and the seconds
\* since the record's start_time -- exactly when X is 'en_llamada' as end_call
\* is invoked and active_calls holds the record of the pair.
C6_EndLogsAcceptedCall ==
    \A x \in DOMAIN connected_users :
        LET p == connected_users[x].in_call_with
            logged == /\ connected_users[x].status = "en_llamada"
                      /\ p # None
                      /\ call_id(x, p) \in DOMAIN active_calls
            r == end_call(Registry, x)
        IN  IF logged
            THEN r.s.db = <<[caller |-> x, callee |-> p,
                             duration |-> now - active_calls[call_id(x, p)].start_time]>>
            ELSE r.s.db = <<>>

\* C7: in every reachable state, active_calls holds a record for a pair only
\* while both are registered and 'en_llamada' with each other.
C7_RecordOnlyWhileInCall ==
    \A id \in DOMAIN active_calls :
        /\ PeerView(Registry, id[1]) = Peer("en_llamada", id[2])
        /\ PeerView(Registry, id[2]) = Peer("en_llamada", id[1])

\* C8: when X has a registered partner Y, decline_call(X) and end_call(X) each
\* leave X and Y 'disponible' with in_call_with = None, whatever the status of
\* the two was; and that is what the handlers leave of them.
C8_DeclineAndEndFreeBoth ==
    \A x \in DOMAIN connected_users :
        LET y == connected_users[x].in_call_with
        IN  (y # None /\ Registered(y)) =>
              /\ \A r \in {decline_call(Registry, x), end_call(Registry, x)} :
                    /\ r.ret = y
                    /\ PeerView(r.s, x) = Available
                    /\ PeerView(r.s, y) = Available
              /\ \A c \in Open : Owner(c) = x =>
                    \A h \in on_call_decline(Registry, c, conn)
                              \cup on_call_end(Registry, c, conn) :
                        /\ PeerView(h, x) \in {Available, Absent}
                        /\ PeerView(h, y) \in {Available, Absent}

\* C8 witness: a peer on an open connection is receiving a call from a
\* registered partner that is itself 'en_llamada' (with this peer or another).
C8_PartnerToRelease ==
    \E c \in Open :
        /\ Registered(Owner(c))
        /\ connected_users[Owner(c)].status \in InCallStatuses
        /\ Registered(connected_users[Owner(c)].in_call_with)
        /\ connected_users[connected_users[Owner(c)].in_call_with].status = "en_llamada"

\* C9: on a peer that is 'disponible' with no partner, end_call, decline_call
\* and accept_call return None and leave the registry and active_calls as they
\* were, their handlers send nothing; and a second end_call right after an
\* end_call that freed the peer does the same.
C9_NoPartnerIsANoOp ==
    \A c \in Open :
        LET x == Owner(c)
        IN  /\ PeerView(Registry, x) = Available =>
                /\ \A r \in {end_call(Registry, x), decline_call(Registry, x),
                             accept_call(Registry, x)} :
                       r = [s |-> Registry, ret |-> None]
                /\ on_call_end(Registry, c, conn) = {Registry}
                /\ on_call_decline(Registry, c, conn) = {Registry}
                /\ on_call_accept(Registry, c, conn) = {Registry}
            /\ LET r1 == end_call(Registry, x)
               IN  PeerView(r1.s, x) = Available =>
                       end_call(r1.s, x) = [s |-> r1.s, ret |-> None]

\* C9 witness: a call has ended (its record is there) and a peer on an open
\* connection is 'disponible' with no partner while two others are in a call.
C9_IdlePeerBesideACall ==
    \E c \in Open, y \in DOMAIN connected_users :
        /\ PeerView(Registry, Owner(c)) = Available
        /\ connected_users[y].status \in InCallStatuses
        /\ active_calls # <<>>

\* the runs that may start in this state and call remove_connected_user
RemovalRuns ==
    UNION ({on_close(Registry, c, [conn EXCEPT ![c] = "closed"]) : c \in Running}
           \cup {on_connect(Registry, c, [conn EXCEPT ![c] = "open"]) :
                    c \in Handles \ Running}
           \cup {on_call_request(Registry, c, b, conn) : c \in Open, b \in TargetIds}
           \cup {on_call_accept(Registry, c, conn) : c \in Open}
           \cup {on_call_decline(Registry, c, conn) : c \in Open}
           \cup {on_call_end(Registry, c, conn) : c \in Open}
           \cup {IF now >= nextSweep THEN on_sweep(Registry, conn) ELSE {}})

MidCall(e) ==
    /\ e.peer.status \in InCallStatuses
    /\ e.peer.in_call_with # None
    /\ e.partner.status # "absent"

\* C10: every call of remove_connected_user(X) -- from the teardown of a
\* connection, from the sweep, from a failed broadcast send -- that finds X
\* 'llamando', 'recibiendo_llamada' or 'en_llamada' with a registered partner Y
\* leaves Y registered, 'disponible' and with in_call_with = None, and leaves
\* X out of connected_users, heartbeats and pending_signals.
C10_RemovalReleasesPartner ==
    \A h \in RemovalRuns :
        \A i \in DOMAIN h.ev :
            MidCall(h.ev[i]) =>
                /\ h.ev[i].partner_after = Available
                /\ ~h.ev[i].in_registry
                /\ ~h.ev[i].in_heartbeats
                /\ ~h.ev[i].in_pending

\* C10 witness: a peer in a call with a registered partner is about to be
\* removed in each of the three ways: its heartbeat is stale and the sweep is
\* due, its transport has failed under a registered socket, and its
\* connection is about to be torn down.
C10_RemovalMidCall ==
    \A via \in {"close", "sweep", "broadcast"} :
        \E h \in RemovalRuns :
            \E i \in DOMAIN h.ev : h.ev[i].via = via /\ MidCall(h.ev[i])

\* The calls of update_user_status that initiate_call, accept_call, end_call
\* and decline_call make when invoked in this state: the registry each call
\* is applied to and its arguments.
UpdateCall(s, user_id, status, in_call_with) ==
    [s |-> s, user_id |-> user_id, status |-> status, in_call_with |-> in_call_with]

StatusUpdates ==
    UNION {
        (IF can_call_user(Registry, a, b)
         THEN {UpdateCall(Registry, a, "llamando", b),
               UpdateCall(update_user_status(Registry, a, "llamando", b),
                          b, "recibiendo_llamada", a)}
         ELSE {})
        \cup
        (IF HasCaller(a) /\ b = connected_users[a].in_call_with
         THEN {UpdateCall(Registry, a, "en_llamada", b),
               UpdateCall(update_user_status(Registry, a, "en_llamada", b),
                          b, "en_llamada", a)}
         ELSE {})
        \cup
        (IF Registered(a) /\ Registered(b) /\ b = connected_users[a].in_call_with
         THEN {UpdateCall(Registry, a, "disponible", None),
               UpdateCall(update_user_status(Registry, a, "disponible", None),
                          b, "disponible", None)}
         ELSE {})
        : a \in Users, b \in Users}

\* C11: every call update_user_status(X, s, p) that moves X.in_call_with away
\* from a previous partner Q (Q not None, Q # p) that is still registered
\* leaves Q 'disponible' with in_call_with = None.
C11_StatusUpdateReleasesPrevious ==
    \A u \in StatusUpdates :
        LET q == PeerView(u.s, u.user_id).in_call_with
            r == update_user_status(u.s, u.user_id, u.status, u.in_call_with)
        IN  (q # None /\ q # u.in_call_with /\ q \in DOMAIN u.s.cu)
                => PeerView(r, q) = Available

\* C12: in every reachable state a registered peer has a partner exactly when
\* its status is 'llamando', 'recibiendo_llamada' or 'en_llamada'.
C12_PartnerIffBusy ==
    \A x \in DOMAIN connected_users :
        /\ connected_users[x].in_call_with # None
              <=> connected_users[x].status \in InCallStatuses
        /\ connected_users[x].status \in InCallStatuses \cup {"disponible"}

\* C12 witness: a call has ended or been declined beside a running one -- a
\* registered peer is 'disponible' while another is 'en_llamada' and a third
\* 'llamando' or 'recibiendo_llamada'.
C12_FreeAndBusyPeers ==
    \E x, y \in DOMAIN connected_users :
        /\ connected_users[x].status = "disponible"
        /\ connected_users[y].status = "en_llamada"
        /\ active_calls # <<>>
        /\ \E c \in Broken : Registered(Owner(c))

\* C13: in every reachable state the partner of a registered peer is itself
\* registered.
C13_PartnerIsRegistered ==
    \A x \in DOMAIN connected_users :
        connected_users[x].in_call_with # None
            => Registered(connected_users[x].in_call_with)

\* the peers a run removed with remove_connected_user, by the caller
RemovedVia(h, via) == {h.ev[i].uid : i \in {j \in DOMAIN h.ev : h.ev[j].via = via}}
Age(u) == now - heartbeats[u]

\* C14: a sweep removes from the registry every peer whose last heartbeat is
\* more than 30 seconds old when it runs, and removes no peer whose last
\* heartbeat is at most 30 seconds old (such a peer leaves during the sweep
\* only if the broadcast that follows fails to send to it).
C14_SweepRemovesExactlyTheStale ==
    now >= nextSweep =>
        \A h \in on_sweep(Registry, conn) :
            LET stale == {u \in DOMAIN heartbeats : Age(u) > InactiveAfter}
            IN  /\ RemovedVia(h, "sweep") = stale
                /\ \A u \in stale : u \notin DOMAIN h.cu /\ u \notin DOMAIN h.hb
                /\ \A u \in DOMAIN connected_users \ stale :
                      u \in DOMAIN h.cu \/ u \in RemovedVia(h, "broadcast")

\* C14 witness: the sweep is due while one registered peer's heartbeat is
\* exactly 30 seconds old and another's is older.
C14_SweepDueAtTheThreshold ==
    /\ now >= nextSweep
    /\ \E u, v \in DOMAIN connected_users :
          /\ Age(u) = InactiveAfter
          /\ Age(v) > InactiveAfter

\* the runs a frame other than a heartbeat may start on connection c
NonHeartbeatRuns(c) ==
    on_get_users(Registry, c)
    \cup UNION {on_call_request(Registry, c, t, conn) : t \in TargetIds}
    \cup on_call_accept(Registry, c, conn)
    \cup on_call_decline(Registry, c, conn)
    \cup on_call_end(Registry, c, conn)
    \cup UNION {on_webrtc_signal(Registry, c, t, p, conn) :
                    t \in TargetIds, p \in Payloads}

\* C15: a heartbeat frame of a registered peer sets its heartbeat to the
\* current time and touches no other; get_users, call_request, call_accept,
\* call_decline, call_end and webrtc_signal refresh no heartbeat (an entry
\* leaves the map only with its peer), so a peer whose heartbeat is stale is
\* still on the sweep's list after any of them.
C15_OnlyHeartbeatRefreshes ==
    \A c \in Open :
        /\ Registered(Owner(c)) =>
              \A h \in on_heartbeat(Registry, c) :
                  h.hb = [heartbeats EXCEPT ![Owner(c)] = now]
        /\ \A h \in NonHeartbeatRuns(c) :
              /\ \A u \in DOMAIN h.hb :
                    u \in DOMAIN heartbeats /\ h.hb[u] = heartbeats[u]
              /\ DOMAIN h.hb = DOMAIN h.cu
              /\ \A u \in DOMAIN h.cu :
                    Age(u) > InactiveAfter => u \in check_inactive_users(h)

\* C15 witness: the sweep is due and a peer in a call, whose heartbeat is more
\* than 30 seconds old, is still on an open connection that can send frames.
C15_StalePeerStillTalking ==
    /\ now >= nextSweep
    /\ \E c \in Open :
          /\ Registered(Owner(c))
          /\ connected_users[Owner(c)].ws = c
          /\ Age(Owner(c)) > InactiveAfter
          /\ connected_users[Owner(c)].status = "en_llamada"

\* the queue of pending signals of u ([] when it has none)
Queue(u) == IF u \in DOMAIN pending_signals THEN pending_signals[u] ELSE <<>>
\* the frames a run sent on connection c, in order
SentTo(h, c) == SelectSeq(h.out, LAMBDA f : f.to = c)
Signals == {signal_message(p, u) : p \in Payloads, u \in Users}

\* C16: when signals wait in the queue of B and B starts a connection, the
\* first frames B is sent on it are those signals, in the order of the queue,
\* before the registered reply and before any roster.
C16_PendingFlushedFirst ==
    \A c \in Handles \ Running :
        Queue(Owner(c)) # <<>> =>
            \A h \in on_connect(Registry, c, [conn EXCEPT ![c] = "open"]) :
                /\ Len(SentTo(h, c)) >= Len(Queue(Owner(c)))
                /\ \A i \in DOMAIN Queue(Owner(c)) :
                      SentTo(h, c)[i] = SignalFrame(c, Queue(Owner(c))[i])

\* C17: a webrtc_signal whose target is not registered is appended to the
\* target's pending queue.
C17_SignalToAbsentTargetIsStored ==
    \A c \in Open, t \in Users \ DOMAIN connected_users, p \in Payloads :
        \A h \in on_webrtc_signal(Registry, c, t, p, conn) :
            /\ t \in DOMAIN h.ps
            /\ h.ps[t] = Append(Queue(t), signal_message(p, Owner(c)))

\* C18: a webrtc_signal to a registered target is sent to the target's socket
\* with the payload as received and the sender's id; when that send fails the
\* same message is appended to the target's queue, nothing is sent a second
\* time, and the sender is sent nothing (no error frame); the peers'
\* statuses are left alone either way.
C18_SignalRelayedOrStored ==
    \A c \in Open, t \in DOMAIN connected_users, p \in Payloads :
        \A h \in on_webrtc_signal(Registry, c, t, p, conn) :
            LET ws == connected_users[t].ws
            IN  /\ h.cu = connected_users
                /\ IF conn[ws] = "open"
                   THEN /\ h.out = <<[to |-> ws, type |-> "webrtc_signal",
                                      id |-> Owner(c), users |-> NoRoster,
                                      signal |-> p]>>
                        /\ h.ps = pending_signals
                   ELSE /\ h.out = <<>>
                        /\ h.ps = [pending_signals EXCEPT ![t] =
                                     Append(@, [type |-> "webrtc_signal",
                                                signal |-> p,
                                                senderId |-> Owner(c)])]

\* C18 witness: a send to a registered target has failed and its signal is
\* in the queue, the target's transport is still failing, and a sender is on
\* an open connection.
C18_TargetWithFailedTransport ==
    \E c \in Open, t \in DOMAIN connected_users :
        /\ conn[connected_users[t].ws] = "broken"
        /\ Queue(t) # <<>>
        /\ Owner(c) # t

\* C19: the pending queue of u is first in, first out: after store_signal of
\* a and then b, get_pending_signals(u) returns what the queue held, then a,
\* then b; it leaves the queue of u empty and the other queues alone, and a
\* second get_pending_signals(u) returns the empty list.
C19_PendingQueueIsFifo ==
    \A u \in Users, a, b \in Signals :
        LET s2 == store_signal(store_signal(Registry, u, a), u, b)
            g1 == get_pending_signals(s2, u)
            g2 == get_pending_signals(g1.s, u)
        IN  /\ g1.ret = Queue(u) \o <<a, b>>
            /\ get_pending_signals(Registry, u).ret = Queue(u)
            /\ g1.s.ps[u] = <<>>
            /\ \A v \in DOMAIN pending_signals \ {u} : g1.s.ps[v] = pending_signals[v]
            /\ g2.ret = <<>>
            /\ g2.s.ps[u] = <<>>

\* C19 witness: store_signal has put two different signals in one queue.
C19_TwoSignalsQueued ==
    \E u \in DOMAIN pending_signals :
        /\ Len(pending_signals[u]) = 2
        /\ pending_signals[u][1] # pending_signals[u][2]

\* the runs that may start in this state, each with the state of the
\* transports it leaves
RunsWithTransports ==
    UNION ({ {[h |-> h, cs |-> [conn EXCEPT ![c] = "closed"]] :
                h \in on_close(Registry, c, [conn EXCEPT ![c] = "closed"])} :
             c \in Running}
           \cup
           { {[h |-> h, cs |-> [conn EXCEPT ![c] = "open"]] :
                h \in on_connect(Registry, c, [conn EXCEPT ![c] = "open"])} :
             c \in Handles \ Running}
           \cup
           { {[h |-> h, cs |-> conn] :
                h \in UNION {on_call_request(Registry, c, b, conn) : b \in TargetIds}
                      \cup on_call_accept(Registry, c, conn)
                      \cup on_call_decline(Registry, c, conn)
                      \cup on_call_end(Registry, c, conn)} :
             c \in Open}
           \cup
           { {[h |-> h, cs |-> conn] :
                h \in IF now >= nextSweep THEN on_sweep(Registry, conn) ELSE {}} })

Snapshot(keys) == [i \in DOMAIN keys |-> <<keys[i], connected_users[keys[i]].ws>>]
FramesTo(h, ws) == {i \in DOMAIN h.out : h.out[i].to = ws}
RemovalsOf(h, u) == {i \in DOMAIN h.ev : h.ev[i].uid = u}

\* C21: a fan-out serves the snapshot taken when it starts -- each recipient
\* whose transport works is sent one roster, each recipient whose send raises
\* is removed once, with its partner released, and is sent nothing, and the
\* recipients after it are still served; the loop ends after one step per
\* snapshot entry, also when peers are removed or registered while it is
\* suspended; run without interruption it removes the failing peers and no
\* other.
C21_FanoutServesItsSnapshot ==
    \A keys \in Orders(DOMAIN connected_users) :
        /\ \A h \in FanoutSuspended(Registry, Snapshot(keys), conn, MaxInterleaved) :
              /\ Len(h.out) + Len(h.ev) <= Len(keys)
              /\ \A i \in DOMAIN keys :
                    LET u == keys[i]
                        ws == connected_users[u].ws
                    IN  /\ conn[ws] = "open" =>
                              /\ Cardinality(FramesTo(h, ws)) = 1
                              /\ RemovalsOf(h, u) = {}
                        /\ conn[ws] = "broken" =>
                              /\ FramesTo(h, ws) = {}
                              /\ Cardinality(RemovalsOf(h, u)) = 1
              /\ \A i \in DOMAIN h.ev :
                    /\ ~h.ev[i].in_registry
                    /\ MidCall(h.ev[i]) => h.ev[i].partner_after = Available
        /\ LET h == Fanout(Registry, Snapshot(keys), conn)
           IN  /\ h \in FanoutSuspended(Registry, Snapshot(keys), conn, MaxInterleaved)
               /\ DOMAIN h.cu = {u \in DOMAIN connected_users :
                                    conn[connected_users[u].ws] # "broken"}

\* C21 witness: a registered peer whose transport has failed is in a call with
\* a registered partner whose transport works.
C21_FailingRecipientMidCall ==
    \E u, v \in DOMAIN connected_users :
        /\ conn[connected_users[u].ws] = "broken"
        /\ conn[connected_users[v].ws] = "open"
        /\ connected_users[u].in_call_with = v
        /\ connected_users[v].in_call_with = u
        /\ connected_users[u].status = "en_llamada"

\* C22: when a session ends -- its receive loop ended by a close, or its
\* transport failed, or a send to it raised while a frame was handled -- the
\* teardown calls remove_connected_user for its peer, first, then broadcasts:
\* the peer is not registered afterwards, and every other registered peer
\* whose transport works is sent one roster without it.
C22_TeardownOnEveryExit ==
    \A c \in Running :
        \A h \in on_close(Registry, c, [conn EXCEPT ![c] = "closed"]) :
            /\ h.ev # <<>>
            /\ h.ev[1].via = "close" /\ h.ev[1].uid = Owner(c)
            /\ ~h.ev[1].in_registry
            /\ Owner(c) \notin DOMAIN h.cu
            /\ \A u \in DOMAIN connected_users \ {Owner(c)} :
                  conn[connected_users[u].ws] = "open" =>
                      \E i \in DOMAIN h.out :
                          /\ h.out[i].to = connected_users[u].ws
                          /\ h.out[i].type = "user_list"
                          /\ h.out[i].users[Owner(c)] = "desconectado"

\* C22 witness: a session whose transport has failed is still running, its
\* peer registered on it and in a call, and another peer is there to be told.
C22_FailedSessionStillRegistered ==
    \E c \in Broken, u \in DOMAIN connected_users :
        /\ Registered(Owner(c))
        /\ connected_users[Owner(c)].ws = c
        /\ connected_users[Owner(c)].status \in InCallStatuses
        /\ u # Owner(c)
        /\ conn[connected_users[u].ws] = "open"

\* C23: a frame that is not valid JSON, and a frame with an unknown type, are
\* each answered with one error frame to the sender; the connection stays
\* open and the registry is left as it was.
C23_BadFrameIsAnsweredWithError ==
    \A c \in Open :
        \A h \in on_malformed(Registry, c) \cup on_unknown_type(Registry, c) :
            /\ h.out = <<Frame(c, "error", None, NoRoster)>>
            /\ h.cu = connected_users
            /\ h.hb = heartbeats
            /\ h.ps = pending_signals
            /\ h.ac = active_calls

\* the registry a run leaves, as the next run finds it
Settled(h) == [h EXCEPT !.out = <<>>, !.db = <<>>, !.ev = <<>>, !.obs = <<>>]
SocketOf(u) == connected_users[u].ws
Count(h, f) == Cardinality({i \in DOMAIN h.out : h.out[i] = f})

\* C24: with A and B registered, 'disponible' and on working transports, A's
\* call_request for B sends B one incoming_call that names A; B's call_accept
\* right after it sends A one call_accepted that names B, and leaves A and B
\* 'en_llamada' with each other.
C24_CallSetupEndToEnd ==
    \A ca, cb \in Open :
        LET a == Owner(ca)
            b == Owner(cb)
        IN  (CanCall(a, b) /\ conn[SocketOf(a)] = "open" /\ conn[SocketOf(b)] = "open") =>
              \A h1 \in on_call_request(Registry, ca, b, conn) :
                  /\ Count(h1, Frame(SocketOf(b), "incoming_call", a, NoRoster)) = 1
                  /\ PeerView(h1, a) = Peer("llamando", b)
                  /\ PeerView(h1, b) = Peer("recibiendo_llamada", a)
                  /\ \A h2 \in on_call_accept(Settled(h1), cb, conn) :
                        /\ Count(h2, Frame(SocketOf(a), "call_accepted", b, NoRoster)) = 1
                        /\ \A f \in Frames(h2) :
                              f.type = "call_accepted" => f.to = SocketOf(a)
                        /\ PeerView(h2, a) = Peer("en_llamada", b)
                        /\ PeerView(h2, b) = Peer("en_llamada", a)

\* C25: the call id does not depend on the order of the two ids; the record
\* that accept_call creates when X accepts P's call is stored under the id
\* that end_call computes for X with partner P and for P with partner X, and
\* every record in active_calls sits under the id of its two users, in either
\* order.
C25_CallIdIgnoresOrder ==
    /\ \A a, b \in Users : call_id(a, b) = call_id(b, a)
    /\ \A x \in Users :
          HasCaller(x) =>
              LET p == connected_users[x].in_call_with
                  r == accept_call(Registry, x)
              IN  /\ DOMAIN r.s.ac = DOMAIN active_calls \cup {call_id(p, x)}
                  /\ call_id(x, p) \in DOMAIN r.s.ac
                  /\ r.s.ac[call_id(p, x)].users = <<x, p>>
    /\ \A id \in DOMAIN active_calls :
          LET users == active_calls[id].users
          IN  id = call_id(users[1], users[2]) /\ id = call_id(users[2], users[1])

\* C25 witness: two calls have been accepted, one by the peer with the larger
\* id, one by the peer with the smaller id.
C25_AcceptedFromBothSides ==
    \E i, j \in DOMAIN active_calls :
        /\ active_calls[i].users[1] > active_calls[i].users[2]
        /\ active_calls[j].users[1] < active_calls[j].users[2]

\* a peer as a registry cu shows it
ViewIn(cu, u) ==
    IF u \in DOMAIN cu
    THEN [status |-> cu[u].status, in_call_with |-> cu[u].in_call_with]
    ELSE Absent

\* the first suspension of run h shows x and y as the registry post has them
BothApplied(h, post, x, y) ==
    /\ h.obs # <<>>
    /\ ViewIn(h.obs[1], x) = ViewIn(post.cu, x)
    /\ ViewIn(h.obs[1], y) = ViewIn(post.cu, y)

\* the registries run h leaves in view: at each of its suspensions, and at its end
Observed(h) == {h.obs[i] : i \in DOMAIN h.obs} \cup {h.cu}

\* C26: a call transition has updated both participants when its handler first
\* suspends (in the send that follows it), and a removal has released the
\* partner when the run that made it next suspends and when it ends: nothing
\* that runs in between sees the caller marked and the target not, or a peer
\* gone and its partner still bound to it.
C26_PairedUpdatesAreNotObservedApart ==
    /\ \A c \in Open :
          LET x == Owner(c)
              y == PeerView(Registry, x).in_call_with
          IN  /\ \A b \in TargetIds :
                    CanCall(x, b) =>
                        \A h \in on_call_request(Registry, c, b, conn) :
                            BothApplied(h, initiate_call(Registry, x, b).s, x, b)
              /\ HasCaller(x) =>
                    \A h \in on_call_accept(Registry, c, conn) :
                        BothApplied(h, accept_call(Registry, x).s, x, y)
              /\ (y # None /\ Registered(y)) =>
                    /\ \A h \in on_call_decline(Registry, c, conn) :
                          BothApplied(h, decline_call(Registry, x).s, x, y)
                    /\ \A h \in on_call_end(Registry, c, conn) :
                          BothApplied(h, end_call(Registry, x).s, x, y)
    /\ \A r \in RunsWithTransports :
          \A i \in DOMAIN r.h.ev :
              MidCall(r.h.ev[i]) =>
                  \A o \in Observed(r.h) :
                      r.h.ev[i].uid \notin DOMAIN o =>
                          ViewIn(o, r.h.ev[i].peer.in_call_with).in_call_with
                              # r.h.ev[i].uid

\* C26 witness: a peer on an open connection has a caller to accept, and a
\* peer in a call with a registered partner sits on a failed transport, about
\* to be removed by a broadcast.
C26_TransitionAndRemovalPending ==
    /\ \E c \in Open : HasCaller(Owner(c)) /\ conn[SocketOf(connected_users[Owner(c)].in_call_with)] = "open"
    /\ \E u \in DOMAIN connected_users :
          /\ conn[SocketOf(u)] = "broken"
          /\ connected_users[u].status \in InCallStatuses
          /\ Registered(connected_users[u].in_call_with)
          /\ connected_users[connected_users[u].in_call_with].in_call_with = u

\* C27: the liveness monitor sweeps again and again, for ever, whatever the
\* connections do: sends that fail in the broadcast after a sweep, frames
\* whose handling ends in the except clause, connections that drop.
C27_MonitorSweepsForever == []<><<Sweep>>_vars

\* C27 witness: the sweep is due, it will remove a peer whose heartbeat is
\* stale, and the broadcast that follows will fail to send to that peer's
\* partner, which is on a failed transport.
C27_SweepDueWithFailingRecipient ==
    /\ now >= nextSweep
    /\ \E u, v \in DOMAIN connected_users :
          /\ Age(u) > InactiveAfter
          /\ Age(v) <= InactiveAfter
          /\ conn[SocketOf(v)] = "broken"
          /\ connected_users[u].in_call_with = v
          /\ connected_users[v].in_call_with = u

\* C28: in every reachable state the statuses of partners match: the partner
\* of a 'llamando' peer is 'recibiendo_llamada' from it, the partner of a
\* 'recibiendo_llamada' peer is 'llamando' towards it, the partner of an
\* 'en_llamada' peer is 'en_llamada' with it; and no peer is the partner of
\* two peers.
C28_StatusesMatchPairwise ==
    /\ \A x \in DOMAIN connected_users :
          LET y == connected_users[x].in_call_with
              st == connected_users[x].status
          IN  /\ st = "llamando" => PeerView(Registry, y) = Peer("recibiendo_llamada", x)
              /\ st = "recibiendo_llamada" => PeerView(Registry, y) = Peer("llamando", x)
              /\ st = "en_llamada" => PeerView(Registry, y) = Peer("en_llamada", x)
    /\ \A x, z \in DOMAIN connected_users :
          (x # z /\ connected_users[x].in_call_with # None)
              => connected_users[x].in_call_with # connected_users[z].in_call_with

\* C29: when the connection that closes is not the one its peer is registered
\* on -- a newer connection of the same id has started -- the teardown leaves
\* the peer registered and bound to the newer connection.
C29_RemovalBoundToItsConnection ==
    \A c \in Running :
        (Registered(Owner(c)) /\ SocketOf(Owner(c)) # c /\ conn[SocketOf(Owner(c))] = "open") =>
            \A h \in on_close(Registry, c, [conn EXCEPT ![c] = "closed"]) :
                /\ Owner(c) \in DOMAIN h.cu
                /\ h.cu[Owner(c)] = connected_users[Owner(c)]

\* C30: accept_call(X) returns a partner only when X is 'recibiendo_llamada'
\* and the partner's in_call_with is X.
C30_AcceptOnlyWhenReceiving ==
    \A x \in DOMAIN connected_users :
        accept_call(Registry, x).ret # None =>
            /\ connected_users[x].status = "recibiendo_llamada"
            /\ connected_users[connected_users[x].in_call_with].in_call_with = x

\* C31: whatever its status and its partner (none, registered, no longer
\* registered), a registered peer that sends call_end is 'disponible' with no
\* partner afterwards (or gone, when the broadcast failed to send to it), and
\* the handler does not end in the except clause: no error frame is sent.
C31_CallEndAlwaysFrees ==
    \A c \in Open :
        Registered(Owner(c)) =>
            \A h \in on_call_end(Registry, c, conn) :
                /\ PeerView(h, Owner(c)) \in {Available, Absent}
                /\ \A f \in Frames(h) : f.type # "error"

\* C32: when the send of incoming_call to the target fails after initiate_call
\* has succeeded, the caller is not left 'llamando' and the target is not left
\* 'recibiendo_llamada'.
C32_FailedOfferIsUndone ==
    \A c \in Open, b \in Users :
        (CanCall(Owner(c), b) /\ conn[SocketOf(b)] # "open") =>
            \A h \in on_call_request(Registry, c, b, conn) :
                /\ PeerView(h, Owner(c)).status # "llamando"
                /\ PeerView(h, b).status # "recibiendo_llamada"

\* every registered peer's transport works
AllTransportsWork == \A u \in DOMAIN connected_users : conn[SocketOf(u)] = "open"

ExpiryBound == InactiveAfter + SweepInterval
PartnerOf(u) == connected_users[u].in_call_with

\* C34: bounded expiry, with a sweeper that wakes exactly when its sleep ends.
\* For every registered peer the next sweep is due no later than 90 seconds
\* after the peer's last heartbeat (or connection start), so the peer's
\* silence never exceeds 90 seconds; when it has reached 90 seconds the sweep
\* is due; and the sweep that runs while the silence exceeds 30 seconds leaves
\* the peer unregistered and its partner, if any, Available (or unregistered).
\* A silent peer is therefore unregistered, and its partner Available, once
\* the sweep due at or before the 90th second has run.
C34_ExpiryBound ==
    \A u \in DOMAIN connected_users :
        /\ u \in DOMAIN heartbeats
        /\ nextSweep <= heartbeats[u] + ExpiryBound
        /\ Age(u) <= ExpiryBound
        /\ Age(u) = ExpiryBound => now >= nextSweep
        /\ (now >= nextSweep /\ Age(u) > InactiveAfter) =>
              \A h \in on_sweep(Registry, conn) :
                  /\ u \notin DOMAIN h.cu
                  /\ PartnerOf(u) # None =>
                        PeerView(h, PartnerOf(u)) \in {Available, Absent}

\* C34 as stated: a registered peer has never been silent for 90 seconds.
C34_GoneAtNinety ==
    \A u \in DOMAIN connected_users : Age(u) < ExpiryBound

\* C34 witness: a peer in a call with a registered partner has been silent
\* for 90 seconds and the sweep is due.
C34_SilentPeerInCallAtSweep ==
    \E u \in DOMAIN connected_users :
        /\ now >= nextSweep
        /\ Age(u) = ExpiryBound
        /\ PartnerOf(u) \in DOMAIN connected_users
        /\ connected_users[u].status = "en_llamada"

\* C35: crossing call requests.  With A and B registered, 'disponible' and on
\* working transports, whichever of the two requests is handled first
\* succeeds (one incoming_call to the other peer, no call_error) and the one
\* handled after it is answered with call_error alone, changes nothing and
\* queues nothing; the two are left as one pair, the first requester
\* 'llamando' and the other 'recibiendo_llamada', each with the other as its
\* partner.
C35_CrossingRequests ==
    \A ca, cb \in Open :
        LET a == Owner(ca)
            b == Owner(cb)
        IN  (CanCall(a, b) /\ conn[SocketOf(a)] = "open" /\ conn[SocketOf(b)] = "open") =>
              \A h1 \in on_call_request(Registry, ca, b, conn) :
                  /\ Count(h1, Frame(SocketOf(b), "incoming_call", a, NoRoster)) = 1
                  /\ \A f \in Frames(h1) : f.type # "call_error"
                  /\ \A h2 \in on_call_request(Settled(h1), cb, a, conn) :
                        /\ h2.out = <<Frame(cb, "call_error", None, NoRoster)>>
                        /\ h2.cu = h1.cu
                        /\ h2.ps = h1.ps
                        /\ h2.ac = h1.ac
                        /\ PeerView(h2, a) = Peer("llamando", b)
                        /\ PeerView(h2, b) = Peer("recibiendo_llamada", a)

\* registry s2 shows every registered peer outside keep as it is now
Untouched(s2, keep) ==
    \A u \in DOMAIN connected_users \ keep :
        u \in DOMAIN s2.cu /\ PeerView(s2, u) = PeerView(Registry, u)

\* C36: initiate_call of X for a target leaves every registered peer other
\* than X and the target as it was; accept_call, decline_call, end_call and
\* remove_connected_user of X leave every registered peer other than X and the
\* partner X has when they are called as it was (registered, same status,
\* same in_call_with); and a heartbeat or webrtc_signal handler run leaves every
\* registered peer registered with its status and its in_call_with.
C36_OnlyTheParticipantsChange ==
    /\ \A x \in Users :
          LET p == IF Registered(x) THEN PartnerOf(x) ELSE None
          IN  /\ \A t \in TargetIds : Untouched(initiate_call(Registry, x, t).s, {x, t})
              /\ Untouched(accept_call(Registry, x).s, {x, p})
              /\ Untouched(decline_call(Registry, x).s, {x, p})
              /\ Untouched(end_call(Registry, x).s, {x, p})
              /\ Untouched(remove_connected_user(Registry, x), {x, p})
    /\ \A c \in Open :
          /\ \A h \in on_heartbeat(Registry, c) : Untouched(h, {})
          /\ \A t \in TargetIds, sig \in Payloads :
                \A h \in on_webrtc_signal(Registry, c, t, sig, conn) : Untouched(h, {})

\* C36 witness: X is in a call with P while a third registered peer, still
\* 'llamando', names X as its partner.
C36_ThirdPeerNamesParticipant ==
    \E x, p, z \in DOMAIN connected_users :
        /\ z \notin {x, p}
        /\ PeerView(Registry, x) = Peer("en_llamada", p)
        /\ PeerView(Registry, p) = Peer("en_llamada", x)
        /\ PeerView(Registry, z) = Peer("llamando", x)
        /\ conn[SocketOf(x)] = "open"

\* C37: every id that has a pending-signal queue is a registered peer, in
\* every reachable state and after every webrtc_signal handler run, the runs
\* in which the target's removal takes place while the send to it is
\* suspended, before it fails, included.
C37_QueuesOnlyForRegistered ==
    /\ DOMAIN pending_signals \subseteq DOMAIN connected_users
    /\ \A c \in Open, t \in TargetIds, sig \in Payloads :
          /\ \A h \in on_webrtc_signal(Registry, c, t, sig, conn) :
                DOMAIN h.ps \subseteq DOMAIN h.cu
          /\ \A h \in on_webrtc_signal_suspended(Registry, c, t, sig, conn) :
                DOMAIN h.ps \subseteq DOMAIN h.cu

====
